---- MODULE Spec2Model ----
(***************************************************************************)
(* Eating-event detection of the CatLink Fresh2 feeder:                    *)
(*   EatingDataProcessor  (stability tracker, eating_data_processor.py)    *)
(*   EatingStateMachine   (IDLE / EATING / STABILIZING)                    *)
(*   Fresh2FeederDevice   (persistence of the day's events)                *)
(*                                                                         *)
(* Time is counted in ticks, TicksPerSec ticks to the second, so that a    *)
(* datetime with a fractional second is representable and                  *)
(* int(timedelta.total_seconds()) is a real truncation.                    *)
(* An Optional[...] field is <<>> (None) or <<v>>.                         *)
(***************************************************************************)
EXTENDS Integers, Sequences, FiniteSets, TLC

\* ------------------------------------------------------------------ bounds
TicksPerSec == 2
MaxCalls == 6

\* ------------------------------------------------------- program constants
\* deque(maxlen=720) of the tracker
WeightSamplesMaxlen == 720
\* the literal inner threshold of _handle_eating_state
InnerStableSeconds == 10

\* --------------------------------------------------------------- helpers
None == <<>>
Some(v) == <<v>>
Val(x) == x[1]
Max(a, b) == IF a >= b THEN a ELSE b

\* Python truthiness of an Optional[int]: None and 0 are false
Truthy(x) == x # None /\ Val(x) # 0

\* timedelta(seconds=n) in ticks
Seconds(n) == n * TicksPerSec

\* int(d.total_seconds()) for a difference d of two datetimes: truncation toward zero
IntTotalSeconds(d) == IF d >= 0 THEN d \div TicksPerSec ELSE -((-d) \div TicksPerSec)

VARIABLES
  \* the data and options of the config entry the integration was set up from
  \* (None: the tracker and machine were constructed directly)
  config_entry,
  \* EatingDataProcessor
  stable_duration_seconds, sample_interval, spike_threshold,
  weight_samples, last_stable_weight, last_stable_time,
  \* EatingStateMachine
  min_eating_amount,
  state, eating_start_time, eating_start_weight, max_weight_during_eating,
  stability_check_start, stability_check_weight, last_event,
  \* the last process_weight call: its arguments, the machine before it, what it
  \* returned and whether it raised; None before the first call
  last_call,
  \* the call that last took the machine from IDLE to EATING (None before it)
  drop_call,
  \* every event process_weight has returned, in order
  emitted,
  \* number of process_weight calls so far
  calls,
  \* a second tracker and machine, constructed with another spike_threshold and
  \* given every sample the first one is given: [spike_threshold,
  \* weight_samples, last_stable_weight, last_stable_time, m, emitted]
  twin,
  \* the meal being fed to the machine (SpecMeal); "free" when the polls are free
  scn,
  \* Fresh2FeederDevice: the in-memory events, the Store object (None until
  \* async_init), what the Store has persisted (None: nothing), dt.now()
  today_events, eating_events_store, stored, now,
  \* Fresh2FeederDevice: the adapter's own history of samples and the time of
  \* the last sample it processed (None before the first)
  weight_history, last_process_time,
  \* saves handed to the Store and not yet written, oldest first; the ids of
  \* the saves written so far, in the order they were written; the refreshes
  \* suspended in an await of a save
  writes, write_log, tasks,
  \* the last storage operation: [op, saved (the list at the last save that
  \* reached the Store, None if none), savedAt]
  io

procVars == <<config_entry, stable_duration_seconds, sample_interval,
              spike_threshold, weight_samples, last_stable_weight,
              last_stable_time>>
machVars == <<min_eating_amount, state, eating_start_time, eating_start_weight,
              max_weight_during_eating, stability_check_start,
              stability_check_weight, last_event>>
cfgVars == <<config_entry, stable_duration_seconds, sample_interval,
            min_eating_amount, spike_threshold>>
callVars == <<last_call, drop_call, emitted, calls, twin>>
adapterVars == <<weight_history, last_process_time, writes, write_log, tasks>>
devVars == <<today_events, eating_events_store, stored, now, io, adapterVars>>
coreVars == <<procVars, machVars, callVars, scn>>
vars == <<coreVars, devVars>>

\* ------------------------------------------------------ EatingDataProcessor

\* a full deque refusing the new entry instead of dropping its oldest one
DequeAppend_KeepsOldest(q, x, maxlen) ==
  IF Len(q) >= maxlen THEN q ELSE Append(q, x)

\* deque.append with maxlen: the oldest entry is dropped once the deque is full
DequeAppend(q, x, maxlen) ==
  IF Len(q) >= maxlen THEN Append(Tail(q), x) ELSE Append(q, x)

\* check_stability without the sample_interval tolerance on the time span
check_stability_NoTolerance(ws) ==
  IF Len(ws) < 2 THEN <<FALSE, 0>>
  ELSE
    LET cutoff_time == ws[Len(ws)].timestamp - Seconds(stable_duration_seconds)
        InWindow(s) == s.timestamp > cutoff_time
        recent_samples == SelectSeq(ws, InWindow)
    IN IF recent_samples = <<>> THEN <<FALSE, 0>>
       ELSE
         LET weights == {recent_samples[i].weight : i \in DOMAIN recent_samples}
             time_span == recent_samples[Len(recent_samples)].timestamp
                          - recent_samples[1].timestamp
         IN IF /\ Cardinality(weights) = 1
               /\ time_span >= Seconds(stable_duration_seconds)
            THEN <<TRUE, recent_samples[1].weight>>
            ELSE <<FALSE, 0>>

\* check_stability answering the current weight when the window is not stable
check_stability_KeepsWeight(ws) ==
  IF Len(ws) < 2 THEN <<FALSE, 0>>
  ELSE
    LET cutoff_time == ws[Len(ws)].timestamp - Seconds(stable_duration_seconds)
        InWindow(s) == s.timestamp > cutoff_time
        recent_samples == SelectSeq(ws, InWindow)
    IN IF recent_samples = <<>> THEN <<FALSE, 0>>
       ELSE
         LET weights == {recent_samples[i].weight : i \in DOMAIN recent_samples}
             time_span == recent_samples[Len(recent_samples)].timestamp
                          - recent_samples[1].timestamp
         IN IF /\ Cardinality(weights) = 1
               /\ time_span >= Seconds(stable_duration_seconds - sample_interval)
            THEN <<TRUE, recent_samples[1].weight>>
            ELSE <<FALSE, ws[Len(ws)].weight>>

\* check_stability() on a history ws: <<is_stable, stable_weight>>
check_stability(ws) ==
  IF Len(ws) < 2 THEN <<FALSE, 0>>
  ELSE
    LET current_time == ws[Len(ws)].timestamp
        cutoff_time == current_time - Seconds(stable_duration_seconds)
        InWindow(s) == s.timestamp > cutoff_time
        recent_samples == SelectSeq(ws, InWindow)
    IN IF recent_samples = <<>> THEN <<FALSE, 0>>
       ELSE
         LET weights == {recent_samples[i].weight : i \in DOMAIN recent_samples}
             time_span == recent_samples[Len(recent_samples)].timestamp
                          - recent_samples[1].timestamp
         IN IF /\ Cardinality(weights) = 1
               /\ time_span >= Seconds(stable_duration_seconds - sample_interval)
            THEN <<TRUE, recent_samples[1].weight>>
            ELSE <<FALSE, 0>>

\* detect_spike(weight)
detect_spike(weight) ==
  IF ~Truthy(last_stable_weight) THEN FALSE
  ELSE weight > Val(last_stable_weight) + spike_threshold

\* add_sample evaluating stability on the history with the new sample in it
add_sample_AfterAppend(weight, timestamp) ==
  LET r == check_stability(Append(weight_samples,
                [timestamp |-> timestamp, weight |-> weight, is_stable |-> FALSE]))
      sample == [timestamp |-> timestamp, weight |-> weight, is_stable |-> r[1]]
  IN /\ IF r[1] /\ Some(r[2]) # last_stable_weight
        THEN /\ last_stable_weight' = Some(r[2])
             /\ last_stable_time' = Some(timestamp)
        ELSE UNCHANGED <<last_stable_weight, last_stable_time>>
     /\ weight_samples' = DequeAppend(weight_samples, sample, WeightSamplesMaxlen)

\* add_sample(weight, timestamp): stability is evaluated before the append
add_sample(weight, timestamp) ==
  LET r == check_stability(weight_samples)
      sample == [timestamp |-> timestamp, weight |-> weight, is_stable |-> r[1]]
  IN /\ IF r[1] /\ Some(r[2]) # last_stable_weight
        THEN /\ last_stable_weight' = Some(r[2])
             /\ last_stable_time' = Some(timestamp)
        ELSE UNCHANGED <<last_stable_weight, last_stable_time>>
     /\ weight_samples' = DequeAppend(weight_samples, sample, WeightSamplesMaxlen)

\* ------------------------------------------------------- EatingStateMachine

\* The machine's fields as one record (a snapshot)
Machine ==
  [state |-> state,
   eating_start_time |-> eating_start_time,
   eating_start_weight |-> eating_start_weight,
   max_weight_during_eating |-> max_weight_during_eating,
   stability_check_start |-> stability_check_start,
   stability_check_weight |-> stability_check_weight,
   last_event |-> last_event]

\* _create_eating_event without the max(0, ...) clamp of the amount
create_eating_event_Signed(m, end_time, end_weight) ==
  [start_time |-> Val(m.eating_start_time),
   end_time |-> end_time,
   start_weight |-> Val(m.eating_start_weight),
   end_weight |-> end_weight,
   amount |-> Val(m.eating_start_weight) - end_weight,
   duration |-> IntTotalSeconds(end_time - Val(m.eating_start_time)),
   max_weight |-> IF Truthy(m.max_weight_during_eating)
                  THEN Val(m.max_weight_during_eating) ELSE end_weight]

\* _create_eating_event(end_time, end_weight) on machine m (start fields set)
create_eating_event(m, end_time, end_weight) ==
  [start_time |-> Val(m.eating_start_time),
   end_time |-> end_time,
   start_weight |-> Val(m.eating_start_weight),
   end_weight |-> end_weight,
   amount |-> Max(0, Val(m.eating_start_weight) - end_weight),
   duration |-> IntTotalSeconds(end_time - Val(m.eating_start_time)),
   max_weight |-> IF Truthy(m.max_weight_during_eating)
                  THEN Val(m.max_weight_during_eating) ELSE end_weight]

\* Each handler maps the machine m (after the max-weight update of
\* process_weight) to [m |-> machine after, ret |-> returned event or None,
\* raised |-> an exception escaped].  lsw is processor.last_stable_weight as
\* add_sample left it.

\* _handle_idle_state starting the inner stability check on the drop sample
handle_idle_state_StartsCheck(m, lsw, weight, timestamp) ==
  IF ~Truthy(lsw) THEN [m |-> m, ret |-> None, raised |-> FALSE]
  ELSE IF weight < Val(lsw) - min_eating_amount
  THEN [m |-> [m EXCEPT !.state = "EATING",
                        !.eating_start_time = Some(timestamp),
                        !.eating_start_weight = lsw,
                        !.max_weight_during_eating = Some(weight),
                        !.stability_check_start = Some(timestamp),
                        !.stability_check_weight = Some(weight)],
        ret |-> None, raised |-> FALSE]
  ELSE [m |-> m, ret |-> None, raised |-> FALSE]

\* _handle_idle_state forgetting to capture eating_start_weight
handle_idle_state_NoStartWeight(m, lsw, weight, timestamp) ==
  IF ~Truthy(lsw) THEN [m |-> m, ret |-> None, raised |-> FALSE]
  ELSE IF weight < Val(lsw) - min_eating_amount
  THEN [m |-> [m EXCEPT !.state = "EATING",
                        !.eating_start_time = Some(timestamp),
                        !.max_weight_during_eating = Some(weight)],
        ret |-> None, raised |-> FALSE]
  ELSE [m |-> m, ret |-> None, raised |-> FALSE]

\* _handle_idle_state
handle_idle_state(m, lsw, weight, timestamp) ==
  IF ~Truthy(lsw) THEN [m |-> m, ret |-> None, raised |-> FALSE]
  ELSE IF weight < Val(lsw) - min_eating_amount
  THEN [m |-> [m EXCEPT !.state = "EATING",
                        !.eating_start_time = Some(timestamp),
                        !.eating_start_weight = lsw,
                        !.max_weight_during_eating = Some(weight)],
        ret |-> None, raised |-> FALSE]
  ELSE [m |-> m, ret |-> None, raised |-> FALSE]

\* _handle_eating_state waiting for the configured stable_duration_seconds
\* instead of its own ten seconds
handle_eating_state_Configured(m, weight, timestamp) ==
  IF m.stability_check_start = None \/ Some(weight) # m.stability_check_weight
  THEN [m |-> [m EXCEPT !.stability_check_start = Some(timestamp),
                        !.stability_check_weight = Some(weight)],
        ret |-> None, raised |-> FALSE]
  ELSE IF timestamp - Val(m.stability_check_start) >= Seconds(stable_duration_seconds)
  THEN [m |-> [m EXCEPT !.state = "STABILIZING"], ret |-> None, raised |-> FALSE]
  ELSE [m |-> m, ret |-> None, raised |-> FALSE]

\* _handle_eating_state closing the meal by itself once the weight has settled
handle_eating_state_SkipsStabilizing(m, weight, timestamp) ==
  IF m.stability_check_start = None \/ Some(weight) # m.stability_check_weight
  THEN [m |-> [m EXCEPT !.stability_check_start = Some(timestamp),
                        !.stability_check_weight = Some(weight)],
        ret |-> None, raised |-> FALSE]
  ELSE IF timestamp - Val(m.stability_check_start) >= Seconds(InnerStableSeconds)
  THEN [m |-> [m EXCEPT !.state = "IDLE"], ret |-> None, raised |-> FALSE]
  ELSE [m |-> m, ret |-> None, raised |-> FALSE]

\* _handle_eating_state restarting the inner check on every sample
handle_eating_state_AlwaysRestarts(m, weight, timestamp) ==
  [m |-> [m EXCEPT !.stability_check_start = Some(timestamp),
                   !.stability_check_weight = Some(weight)],
   ret |-> None, raised |-> FALSE]

\* _handle_eating_state
handle_eating_state(m, weight, timestamp) ==
  IF m.stability_check_start = None \/ Some(weight) # m.stability_check_weight
  THEN [m |-> [m EXCEPT !.stability_check_start = Some(timestamp),
                        !.stability_check_weight = Some(weight)],
        ret |-> None, raised |-> FALSE]
  ELSE IF timestamp - Val(m.stability_check_start) >= Seconds(InnerStableSeconds)
  THEN [m |-> [m EXCEPT !.state = "STABILIZING"], ret |-> None, raised |-> FALSE]
  ELSE [m |-> m, ret |-> None, raised |-> FALSE]

\* _handle_stabilizing_state resuming EATING without restarting the inner check
handle_stabilizing_state_KeepsCheck(m, weight, timestamp) ==
  IF Some(weight) # m.stability_check_weight
  THEN [m |-> [m EXCEPT !.state = "EATING",
                        !.stability_check_weight = Some(weight)],
        ret |-> None, raised |-> FALSE]
  ELSE IF m.stability_check_start = None
  THEN [m |-> m, ret |-> None, raised |-> TRUE]
  ELSE IF timestamp - Val(m.stability_check_start) >= Seconds(stable_duration_seconds)
  THEN IF m.eating_start_weight = None \/ m.eating_start_time = None
       THEN [m |-> m, ret |-> None, raised |-> TRUE]
       ELSE LET event == create_eating_event(m, timestamp, weight)
            IN [m |-> [m EXCEPT !.state = "IDLE",
                                !.eating_start_time = None,
                                !.eating_start_weight = None,
                                !.stability_check_start = None,
                                !.stability_check_weight = None,
                                !.max_weight_during_eating = None,
                                !.last_event = Some(event)],
                ret |-> Some(event), raised |-> FALSE]
  ELSE [m |-> m, ret |-> None, raised |-> FALSE]

\* _handle_stabilizing_state returning to IDLE without clearing the inner check
handle_stabilizing_state_LeavesCheck(m, weight, timestamp) ==
  IF Some(weight) # m.stability_check_weight
  THEN [m |-> [m EXCEPT !.state = "EATING",
                        !.stability_check_start = Some(timestamp),
                        !.stability_check_weight = Some(weight)],
        ret |-> None, raised |-> FALSE]
  ELSE IF m.stability_check_start = None
  THEN [m |-> m, ret |-> None, raised |-> TRUE]
  ELSE IF timestamp - Val(m.stability_check_start) >= Seconds(stable_duration_seconds)
  THEN IF m.eating_start_weight = None \/ m.eating_start_time = None
       THEN [m |-> m, ret |-> None, raised |-> TRUE]
       ELSE LET event == create_eating_event(m, timestamp, weight)
            IN [m |-> [m EXCEPT !.state = "IDLE",
                                !.eating_start_time = None,
                                !.eating_start_weight = None,
                                !.max_weight_during_eating = None,
                                !.last_event = Some(event)],
                ret |-> Some(event), raised |-> FALSE]
  ELSE [m |-> m, ret |-> None, raised |-> FALSE]

\* _handle_stabilizing_state closing the meal after the ten seconds of the
\* inner check instead of stable_duration_seconds
handle_stabilizing_state_Inner(m, weight, timestamp) ==
  IF Some(weight) # m.stability_check_weight
  THEN [m |-> [m EXCEPT !.state = "EATING",
                        !.stability_check_start = Some(timestamp),
                        !.stability_check_weight = Some(weight)],
        ret |-> None, raised |-> FALSE]
  ELSE IF m.stability_check_start = None
  THEN [m |-> m, ret |-> None, raised |-> TRUE]
  ELSE IF timestamp - Val(m.stability_check_start) >= Seconds(InnerStableSeconds)
  THEN IF m.eating_start_weight = None \/ m.eating_start_time = None
       THEN [m |-> m, ret |-> None, raised |-> TRUE]
       ELSE LET event == create_eating_event(m, timestamp, weight)
            IN [m |-> [m EXCEPT !.state = "IDLE",
                                !.eating_start_time = None,
                                !.eating_start_weight = None,
                                !.stability_check_start = None,
                                !.stability_check_weight = None,
                                !.max_weight_during_eating = None,
                                !.last_event = Some(event)],
                ret |-> Some(event), raised |-> FALSE]
  ELSE [m |-> m, ret |-> None, raised |-> FALSE]

\* _handle_stabilizing_state
handle_stabilizing_state(m, weight, timestamp) ==
  IF Some(weight) # m.stability_check_weight
  THEN [m |-> [m EXCEPT !.state = "EATING",
                        !.stability_check_start = Some(timestamp),
                        !.stability_check_weight = Some(weight)],
        ret |-> None, raised |-> FALSE]
  ELSE IF m.stability_check_start = None
  THEN \* datetime - None: TypeError
       [m |-> m, ret |-> None, raised |-> TRUE]
  ELSE IF timestamp - Val(m.stability_check_start) >= Seconds(stable_duration_seconds)
  THEN IF m.eating_start_weight = None \/ m.eating_start_time = None
       THEN \* _create_eating_event: None - int / datetime - None: TypeError
            [m |-> m, ret |-> None, raised |-> TRUE]
       ELSE LET event == create_eating_event(m, timestamp, weight)
            IN [m |-> [m EXCEPT !.state = "IDLE",
                                !.eating_start_time = None,
                                !.eating_start_weight = None,
                                !.stability_check_start = None,
                                !.stability_check_weight = None,
                                !.max_weight_during_eating = None,
                                !.last_event = Some(event)],
                ret |-> Some(event), raised |-> FALSE]
  ELSE [m |-> m, ret |-> None, raised |-> FALSE]

\* the spike_threshold the second machine is constructed with
TwinSpikeThreshold == 500

\* EatingDataProcessor.__init__ and EatingStateMachine.__init__ of the second
\* machine
TwinConstructed(spike) ==
  [spike_threshold |-> spike,
   weight_samples |-> <<>>,
   last_stable_weight |-> None,
   last_stable_time |-> None,
   m |-> [state |-> "IDLE",
          eating_start_time |-> None,
          eating_start_weight |-> None,
          max_weight_during_eating |-> None,
          stability_check_start |-> None,
          stability_check_weight |-> None,
          last_event |-> None],
   emitted |-> <<>>]

\* detect_spike(weight) of the tracker p
detect_spike_of(p, weight) ==
  IF ~Truthy(p.last_stable_weight) THEN FALSE
  ELSE weight > Val(p.last_stable_weight) + p.spike_threshold

\* add_sample(weight, timestamp) of the tracker p
add_sample_of(p, weight, timestamp) ==
  LET r == check_stability(p.weight_samples)
      sample == [timestamp |-> timestamp, weight |-> weight, is_stable |-> r[1]]
      fresh == r[1] /\ Some(r[2]) # p.last_stable_weight
  IN [p EXCEPT
        !.last_stable_weight = IF fresh THEN Some(r[2]) ELSE @,
        !.last_stable_time = IF fresh THEN Some(timestamp) ELSE @,
        !.weight_samples = DequeAppend(@, sample, WeightSamplesMaxlen)]

\* process_weight(weight, timestamp) of the second machine p
process_weight_of(p, weight, timestamp) ==
  LET p1 == add_sample_of(p, weight, timestamp)
      m0 == p.m
      m1 == IF m0.state = "EATING" /\ m0.max_weight_during_eating # None
            THEN [m0 EXCEPT !.max_weight_during_eating =
                              Some(Max(Val(m0.max_weight_during_eating), weight))]
            ELSE m0
      r == CASE m1.state = "IDLE" ->
                  handle_idle_state(m1, p1.last_stable_weight, weight, timestamp)
             [] m1.state = "EATING" -> handle_eating_state(m1, weight, timestamp)
             [] m1.state = "STABILIZING" ->
                  handle_stabilizing_state(m1, weight, timestamp)
             [] OTHER -> [m |-> m1, ret |-> None, raised |-> FALSE]
  IN [p1 EXCEPT !.m = r.m,
                !.emitted = IF r.ret = None THEN @ ELSE Append(@, Val(r.ret))]

\* process_weight leaving the machine alone on a sample that detect_spike flags
process_weight_SpikeGated(weight, timestamp) ==
  /\ add_sample(weight, timestamp)
  /\ LET m0 == Machine
         m1 == IF m0.state = "EATING" /\ m0.max_weight_during_eating # None
               THEN [m0 EXCEPT !.max_weight_during_eating =
                                 Some(Max(Val(m0.max_weight_during_eating), weight))]
               ELSE m0
         spike == /\ Truthy(last_stable_weight')
                  /\ weight > Val(last_stable_weight') + spike_threshold
         r == CASE spike -> [m |-> m0, ret |-> None, raised |-> FALSE]
                [] m1.state = "IDLE" ->
                     handle_idle_state(m1, last_stable_weight', weight, timestamp)
                [] m1.state = "EATING" -> handle_eating_state(m1, weight, timestamp)
                [] m1.state = "STABILIZING" ->
                     handle_stabilizing_state(m1, weight, timestamp)
                [] OTHER -> [m |-> m1, ret |-> None, raised |-> FALSE]
     IN /\ state' = r.m.state
        /\ eating_start_time' = r.m.eating_start_time
        /\ eating_start_weight' = r.m.eating_start_weight
        /\ max_weight_during_eating' = r.m.max_weight_during_eating
        /\ stability_check_start' = r.m.stability_check_start
        /\ stability_check_weight' = r.m.stability_check_weight
        /\ last_event' = r.m.last_event
        /\ last_call' = Some([weight |-> weight, timestamp |-> timestamp,
                              before |-> m0,
                              baseline |-> last_stable_weight',
                              ret |-> r.ret, raised |-> r.raised])
        /\ drop_call' = IF m0.state = "IDLE" /\ r.m.state = "EATING"
                        THEN Some([weight |-> weight, timestamp |-> timestamp])
                        ELSE drop_call
        /\ emitted' = IF r.ret = None THEN emitted ELSE Append(emitted, Val(r.ret))
  /\ twin' = process_weight_of(twin, weight, timestamp)
  /\ calls' = calls + 1
  /\ UNCHANGED cfgVars

\* process_weight(weight, timestamp)
process_weight(weight, timestamp) ==
  /\ add_sample(weight, timestamp)
  /\ LET m0 == Machine
         m1 == IF m0.state = "EATING" /\ m0.max_weight_during_eating # None
               THEN [m0 EXCEPT !.max_weight_during_eating =
                                 Some(Max(Val(m0.max_weight_during_eating), weight))]
               ELSE m0
         r == CASE m1.state = "IDLE" ->
                     handle_idle_state(m1, last_stable_weight', weight, timestamp)
                [] m1.state = "EATING" -> handle_eating_state(m1, weight, timestamp)
                [] m1.state = "STABILIZING" ->
                     handle_stabilizing_state(m1, weight, timestamp)
                [] OTHER -> [m |-> m1, ret |-> None, raised |-> FALSE]
     IN /\ state' = r.m.state
        /\ eating_start_time' = r.m.eating_start_time
        /\ eating_start_weight' = r.m.eating_start_weight
        /\ max_weight_during_eating' = r.m.max_weight_during_eating
        /\ stability_check_start' = r.m.stability_check_start
        /\ stability_check_weight' = r.m.stability_check_weight
        /\ last_event' = r.m.last_event
        /\ last_call' = Some([weight |-> weight, timestamp |-> timestamp,
                              before |-> m0,
                              baseline |-> last_stable_weight',
                              ret |-> r.ret, raised |-> r.raised])
        /\ drop_call' = IF m0.state = "IDLE" /\ r.m.state = "EATING"
                        THEN Some([weight |-> weight, timestamp |-> timestamp])
                        ELSE drop_call
        /\ emitted' = IF r.ret = None THEN emitted ELSE Append(emitted, Val(r.ret))
  /\ twin' = process_weight_of(twin, weight, timestamp)
  /\ calls' = calls + 1
  /\ UNCHANGED cfgVars

\* is_eating
is_eating == state \in {"EATING", "STABILIZING"}

\* current_eating_amount without the max(0, ...) clamp
current_eating_amount_Unclamped ==
  IF ~(state \in {"EATING", "STABILIZING"}) \/ ~Truthy(eating_start_weight) THEN 0
  ELSE LET current_weight == IF Truthy(stability_check_weight)
                             THEN Val(stability_check_weight) ELSE 0
       IN Val(eating_start_weight) - current_weight

\* current_eating_amount
current_eating_amount ==
  IF ~is_eating \/ ~Truthy(eating_start_weight) THEN 0
  ELSE LET current_weight == IF Truthy(stability_check_weight)
                             THEN Val(stability_check_weight) ELSE 0
       IN Max(0, Val(eating_start_weight) - current_weight)

\* ------------------------------------------------------------ construction

\* EatingDataProcessor.__init__ and EatingStateMachine.__init__
ConstructedWith(dur, interval, minAmount, spike) ==
  /\ stable_duration_seconds = dur
  /\ sample_interval = interval
  /\ min_eating_amount = minAmount
  /\ spike_threshold = spike
  /\ weight_samples = <<>>
  /\ last_stable_weight = None
  /\ last_stable_time = None
  /\ state = "IDLE"
  /\ eating_start_time = None
  /\ eating_start_weight = None
  /\ max_weight_during_eating = None
  /\ stability_check_start = None
  /\ stability_check_weight = None
  /\ last_event = None
  /\ last_call = None
  /\ drop_call = None
  /\ emitted = <<>>
  /\ calls = 0
  /\ twin = TwinConstructed(TwinSpikeThreshold)

\* the tracker and the machine constructed directly, without a config entry
Constructed(dur, interval, minAmount, spike) ==
  /\ ConstructedWith(dur, interval, minAmount, spike)
  /\ config_entry = None

\* timestamp of the latest sample handed to the machine (0 before the first)
LastTimestamp ==
  IF last_call = None THEN 0 ELSE Val(last_call).timestamp

\* ---------------------------------------------------------------- Spec
\* The machine under a free stream of polls: any weight of Weights, each poll
\* Deltas after the previous one.
Weights == {0, 7, 10}
Deltas == {Seconds(3) + 1, Seconds(10)}

FreePolls == [name |-> "free"]

\* Fresh2FeederDevice.__init__: an empty history, nothing processed, no save
\* in flight
AdapterConstructed ==
  /\ weight_history = <<>>
  /\ last_process_time = None
  /\ writes = <<>>
  /\ write_log = <<>>
  /\ tasks = {}

\* Fresh2FeederDevice.__init__: no events, no Store yet
DeviceConstructed ==
  /\ AdapterConstructed
  /\ today_events = <<>>
  /\ eating_events_store = None
  /\ stored = None
  /\ now = 0
  /\ io = [op |-> "none", saved |-> None, savedAt |-> 0]

Init == Constructed(15, 5, 2, 5) /\ scn = FreePolls /\ DeviceConstructed

Poll ==
  /\ calls < MaxCalls
  /\ \E w \in Weights, d \in Deltas : process_weight(w, LastTimestamp + d)
  /\ UNCHANGED <<scn, devVars>>

Next == Poll

Spec == Init /\ [][Next]_vars

\* -------------------------------------------------------------- SpecAny
\* The machine called directly with any input: a weight of 0 (a missing reading)
\* or more, at timestamps that may also step back.
WeightsAny == {0, 10}
DeltasAny == {-Seconds(5), Seconds(5), Seconds(10)}

InitAny == Constructed(15, 5, 2, 5) /\ scn = FreePolls /\ DeviceConstructed

PollAny ==
  /\ calls < MaxCalls
  /\ \E w \in WeightsAny, d \in DeltasAny : process_weight(w, LastTimestamp + d)
  /\ UNCHANGED <<scn, devVars>>

NextAny == PollAny

SpecAny == InitAny /\ [][NextAny]_vars

\* ------------------------------------------------------------ SpecSigned
\* The machine called with readings of either sign (int(weight) of the adapter
\* keeps a negative reading), ten seconds apart or slightly less, under two
\* configured durations.
WeightsSigned == {-5, 0, 10}
DeltasSigned == {Seconds(10) - 1, Seconds(10)}
DurationsSigned == {15, 20}

InitSigned ==
  /\ \E dur \in DurationsSigned : Constructed(dur, 5, 2, 5)
  /\ scn = FreePolls
  /\ DeviceConstructed

PollSigned ==
  /\ calls < MaxCalls
  /\ \E w \in WeightsSigned, d \in DeltasSigned :
       process_weight(w, LastTimestamp + d)
  /\ UNCHANGED <<scn, devVars>>

NextSigned == PollSigned

SpecSigned == InitSigned /\ [][NextSigned]_vars

\* -------------------------------------------------------------- SpecMeal
\* One meal: the bowl is polled at weight B until the tracker finds it stable,
\* then drops to B2 and stays there.  The polls of a meal come at the gaps of
\* its set dts: the exact 5 s cadence, or a cadence that also misses a poll.
LongBaseline == 16
LongHold == 16
ShortBaseline == 3
ShortHold == 9

Meals ==
  {[dur |-> 60, B |-> 500, B2 |-> 490, dts |-> {Seconds(5)},
    maxBaseline |-> LongBaseline, maxHold |-> LongHold]}
  \cup
  {[dur |-> d, B |-> 10, B2 |-> b2, dts |-> {Seconds(5), Seconds(10)},
    maxBaseline |-> ShortBaseline, maxHold |-> ShortHold] :
     d \in {10, 15}, b2 \in {0, 7}}

InitMeal ==
  \E meal \in Meals :
    /\ Constructed(meal.dur, 5, 2, 100)
    /\ DeviceConstructed
    /\ scn = [name |-> "meal", phase |-> "baseline", B |-> meal.B, B2 |-> meal.B2,
              dts |-> meal.dts, maxBaseline |-> meal.maxBaseline,
              maxHold |-> meal.maxHold]

\* one more poll at the baseline weight
FeedBaseline ==
  /\ scn.phase = "baseline"
  /\ calls < scn.maxBaseline
  /\ \E d \in scn.dts : process_weight(scn.B, LastTimestamp + d)
  /\ UNCHANGED <<scn, devVars>>

\* the first poll at the new weight, once the tracker finds the baseline stable
FeedDrop ==
  /\ scn.phase = "baseline"
  /\ check_stability(weight_samples) = <<TRUE, scn.B>>
  /\ \E d \in scn.dts :
       /\ process_weight(scn.B2, LastTimestamp + d)
       /\ scn' = [name |-> "meal", phase |-> "hold", B |-> scn.B, B2 |-> scn.B2,
                  dts |-> scn.dts, maxBaseline |-> scn.maxBaseline,
                  maxHold |-> scn.maxHold,
                  stableFor |-> LastTimestamp - weight_samples[1].timestamp,
                  dropTime |-> LastTimestamp + d,
                  dropCalls |-> calls + 1]
  /\ UNCHANGED devVars

\* one more poll at the new weight
FeedHold ==
  /\ scn.phase = "hold"
  /\ calls - scn.dropCalls < scn.maxHold
  /\ \E d \in scn.dts : process_weight(scn.B2, LastTimestamp + d)
  /\ UNCHANGED <<scn, devVars>>

NextMeal == FeedBaseline \/ FeedDrop \/ FeedHold

SpecMeal == InitMeal /\ [][NextMeal]_vars

\* ------------------------------------------------- persistence of the events
TicksPerDay == 24 * 60 * 60 * TicksPerSec

\* datetime.date()
Date(t) == t \div TicksPerDay

\* isoformat(timespec="seconds"): the fraction of the second is dropped
isoformat_Seconds(t) == <<t \div TicksPerDay, (t % TicksPerDay) \div TicksPerSec>>

\* datetime.isoformat(): the text as its parts <<date, second of the day>>,
\* followed by the fraction of the second only when it is not zero
isoformat(t) ==
  LET tod == t % TicksPerDay
  IN IF tod % TicksPerSec = 0
     THEN <<Date(t), tod \div TicksPerSec>>
     ELSE <<Date(t), tod \div TicksPerSec, tod % TicksPerSec>>

\* a text datetime.fromisoformat() parses; any other raises ValueError
IsIsoformat(x) ==
  /\ DOMAIN x \in {1..2, 1..3}
  /\ \A i \in DOMAIN x : x[i] \in Nat
  /\ x[2] < 24 * 60 * 60
  /\ Len(x) = 3 => x[3] < TicksPerSec

\* datetime.fromisoformat()
fromisoformat(x) ==
  x[1] * TicksPerDay + x[2] * TicksPerSec + (IF Len(x) = 3 THEN x[3] ELSE 0)

\* the dict _save_eating_events writes for one event
EventData(event) ==
  [start |-> isoformat(event.start_time),
   end |-> isoformat(event.end_time),
   amount |-> event.amount,
   duration |-> event.duration,
   start_weight |-> event.start_weight,
   end_weight |-> event.end_weight,
   max_weight |-> event.max_weight]

\* _save_eating_events
save_eating_events ==
  IF eating_events_store = None
  THEN UNCHANGED <<stored, io>>
  ELSE /\ stored' = Some([events |-> [i \in DOMAIN today_events |->
                                        EventData(today_events[i])],
                          last_updated |-> isoformat(now)])
       /\ io' = [op |-> "save", saved |-> Some(today_events), savedAt |-> now]

\* a stored value that is not a text (a JSON null): fromisoformat raises TypeError
JsonNull == <<"null">>
IsStr(x) == x # JsonNull

\* the body of the loop of _load_eating_events for one stored record: the
\* events it appends (one or none) and whether an exception escapes the loop.
\* A KeyError or ValueError skips the record; a TypeError is not caught.
LoadedFrom(event_data, today) ==
  LET Skip == [events |-> <<>>, raised |-> FALSE]
      Raise == [events |-> <<>>, raised |-> TRUE]
  IN IF "start" \notin DOMAIN event_data THEN Skip
     ELSE IF ~IsStr(event_data.start) THEN Raise
     ELSE IF ~IsIsoformat(event_data.start) THEN Skip
     ELSE IF Date(fromisoformat(event_data.start)) # today THEN Skip
     ELSE IF "end" \notin DOMAIN event_data THEN Skip
     ELSE IF ~IsStr(event_data.end) THEN Raise
     ELSE IF ~IsIsoformat(event_data.end) THEN Skip
     ELSE IF ~({"start_weight", "end_weight", "amount", "duration"}
                 \subseteq DOMAIN event_data) THEN Skip
     ELSE [events |->
             <<[start_time |-> fromisoformat(event_data.start),
                end_time |-> fromisoformat(event_data.end),
                start_weight |-> event_data.start_weight,
                end_weight |-> event_data.end_weight,
                amount |-> event_data.amount,
                duration |-> event_data.duration,
                max_weight |-> IF "max_weight" \in DOMAIN event_data
                               THEN event_data.max_weight ELSE 0]>>,
           raised |-> FALSE]

\* the loop of _load_eating_events: it stops at the record that raises
RECURSIVE LoadedEvents(_, _)
LoadedEvents(records, today) ==
  IF records = <<>> THEN [events |-> <<>>, raised |-> FALSE]
  ELSE LET first == LoadedFrom(Head(records), today)
       IN IF first.raised THEN first
          ELSE LET rest == LoadedEvents(Tail(records), today)
               IN [events |-> first.events \o rest.events, raised |-> rest.raised]

\* _load_eating_events
load_eating_events ==
  IF eating_events_store = None \/ stored = None
  THEN /\ UNCHANGED today_events
       /\ io' = [io EXCEPT !.op = "noload"]
  ELSE LET loaded == LoadedEvents(IF "events" \in DOMAIN Val(stored)
                                  THEN Val(stored).events ELSE <<>>, Date(now))
       IN /\ today_events' = loaded.events
          /\ io' = [io EXCEPT !.op = IF loaded.raised THEN "load raised" ELSE "load"]

\* ------------------------------------------------------------- SpecStore
\* Saving and loading the day's events around midnight.  The events are ones
\* the machine can return; the in-memory list is in the order they ended, all of
\* one date except that the newest may be of the next date (appended by
\* _handle_eating_event before _cleanup_old_events has run).
Midnight == TicksPerDay

StoreEvent(start_time, end_time, start_weight, end_weight, max_weight) ==
  create_eating_event([eating_start_time |-> Some(start_time),
                       eating_start_weight |-> Some(start_weight),
                       max_weight_during_eating |-> Some(max_weight)],
                      end_time, end_weight)

EventPool ==
  <<StoreEvent(Midnight - Seconds(200), Midnight - Seconds(130), 500, 490, 490),
    StoreEvent(Midnight - Seconds(60) - 1, Midnight + Seconds(5), 490, 470, 600),
    StoreEvent(Midnight + Seconds(100), Midnight + Seconds(170) + 1, 470, 480, 480),
    StoreEvent(Midnight + Seconds(300) + 1, Midnight + Seconds(365) + 1, 480, 0, 0)>>

\* the events of EventPool picked by the index set S, in order
RECURSIVE Picked(_, _)
Picked(S, i) ==
  IF i > Len(EventPool) THEN <<>>
  ELSE (IF i \in S THEN <<EventPool[i]>> ELSE <<>>) \o Picked(S, i + 1)

MemoryLists ==
  {l \in {Picked(S, 1) : S \in SUBSET (1..Len(EventPool))} :
     \A i \in 1..(Len(l) - 2) :
       Date(l[i + 1].start_time) = Date(l[1].start_time)}

Clock ==
  {Midnight - Seconds(120), Midnight + Seconds(10), Midnight + Seconds(400) + 1,
   Midnight + TicksPerDay + Seconds(10)}

InitStore ==
  /\ Constructed(60, 5, 2, 100)
  /\ scn = FreePolls
  /\ today_events \in MemoryLists
  /\ now \in Clock
  /\ today_events # <<>> => now >= today_events[Len(today_events)].end_time
  /\ eating_events_store \in {None, Some("Store")}
  /\ AdapterConstructed
  /\ stored = None
  /\ io = [op |-> "none", saved |-> None, savedAt |-> 0]

SaveEatingEvents ==
  /\ save_eating_events
  /\ UNCHANGED <<coreVars, today_events, eating_events_store, now, adapterVars>>

LoadEatingEvents ==
  /\ load_eating_events
  /\ UNCHANGED <<coreVars, eating_events_store, stored, now, adapterVars>>

\* time passes
Tick ==
  /\ \E t \in Clock : t > now /\ now' = t
  /\ io' = [io EXCEPT !.op = "tick"]
  /\ UNCHANGED <<coreVars, today_events, eating_events_store, stored, adapterVars>>

NextStore == SaveEatingEvents \/ LoadEatingEvents \/ Tick

SpecStore == InitStore /\ [][NextStore]_vars

\* -------------------------------------------------------------- SpecLoad
\* Loading a stored file that holds up to MaxRecords records, some of them
\* damaged: a field missing, a timestamp text that does not parse, a timestamp
\* that is not a text.
MaxRecords == 3

Without(rec, field) == [f \in DOMAIN rec \ {field} |-> rec[f]]

\* a text fromisoformat() rejects
GarbageText == <<1, 24 * 60 * 60>>

StoredRecords ==
  {EventData(EventPool[1]), EventData(EventPool[3]), EventData(EventPool[4]),
   Without(EventData(EventPool[3]), "end"),
   Without(EventData(EventPool[4]), "amount"),
   Without(EventData(EventPool[4]), "max_weight"),
   [EventData(EventPool[3]) EXCEPT !.start = GarbageText],
   [EventData(EventPool[4]) EXCEPT !.end = GarbageText],
   [EventData(EventPool[3]) EXCEPT !.start = JsonNull]}

StoredFiles ==
  UNION {[1..n -> StoredRecords] : n \in 0..MaxRecords}

InitLoad ==
  /\ Constructed(60, 5, 2, 100)
  /\ scn = FreePolls
  /\ AdapterConstructed
  /\ today_events = <<>>
  /\ now \in {Midnight + Seconds(400) + 1, Midnight + TicksPerDay + Seconds(10)}
  /\ eating_events_store = Some("Store")
  /\ stored \in {Some([events |-> f, last_updated |-> isoformat(Midnight)]) :
                   f \in StoredFiles}
  /\ io = [op |-> "none", saved |-> None, savedAt |-> 0]

NextLoad == LoadEatingEvents \/ Tick

SpecLoad == InitLoad /\ [][NextLoad]_vars

\* ------------------------------------------------------ the device adapter
\* deque(maxlen=17280) of the adapter
WeightHistoryMaxlen == 17280
\* a sample less than 3 seconds after the last processed one is a duplicate
DuplicateSeconds == 3

\* bowl_balance: the "weight" attribute of the detail in grams; a missing,
\* empty or non-numeric reading is 0
bowl_balance(raw) == IF raw.kind = "number" THEN raw.value ELSE 0

\* the data _save_eating_events hands to the Store at time t
SaveData(events, t) ==
  [events |-> [i \in DOMAIN events |-> EventData(events[i])],
   last_updated |-> isoformat(t)]

\* the list _cleanup_old_events keeps: the events that started on the date today
KeepOnly(events, today) ==
  LET StartedToday(e) == Date(e.start_time) = today
  IN SelectSeq(events, StartedToday)

\* A refresh runs until it awaits a save.  An outcome is the in-memory list it
\* leaves, the data of the save it issued (None: it finished without one) and
\* where it waits: pc, with the date its _cleanup_old_events had read.

\* _cleanup_old_events dropping the old events before it saves
cleanup_old_events_ClearsFirst(events, t) ==
  IF events # <<>> /\ Date(events[1].start_time) < Date(t)
  THEN IF eating_events_store = None
       THEN [events |-> KeepOnly(events, Date(t)), save |-> None,
             pc |-> "done", today |-> Date(t)]
       ELSE [events |-> KeepOnly(events, Date(t)),
             save |-> Some(SaveData(KeepOnly(events, Date(t)), t)),
             pc |-> "cleanup saved", today |-> Date(t)]
  ELSE [events |-> events, save |-> None, pc |-> "done", today |-> Date(t)]

\* _cleanup_old_events entered at time t
cleanup_old_events(events, t) ==
  IF events # <<>> /\ Date(events[1].start_time) < Date(t)
  THEN IF eating_events_store = None
       THEN [events |-> KeepOnly(events, Date(t)), save |-> None,
             pc |-> "done", today |-> Date(t)]
       ELSE [events |-> events, save |-> Some(SaveData(events, t)),
             pc |-> "cleanup saved", today |-> Date(t)]
  ELSE [events |-> events, save |-> None, pc |-> "done", today |-> Date(t)]

\* _handle_eating_event saving the list before it appends the event
handle_eating_event_SavesFirst(events, event, t) ==
  IF eating_events_store = None
  THEN cleanup_old_events(Append(events, event), t)
  ELSE [events |-> Append(events, event),
        save |-> Some(SaveData(events, t)),
        pc |-> "event saved", today |-> Date(t)]

\* _handle_eating_event(event) at time t, followed by the rest of
\* _process_weight_sample when the save does not suspend
handle_eating_event(events, event, t) ==
  IF eating_events_store = None
  THEN cleanup_old_events(Append(events, event), t)
  ELSE [events |-> Append(events, event),
        save |-> Some(SaveData(Append(events, event), t)),
        pc |-> "event saved", today |-> Date(t)]

\* the number of saves handed to the Store so far
Issued == Len(write_log) + Len(writes)

\* an outcome takes effect at time t: the list is set, the save joins the
\* Store's queue and the refresh waits for it; others are the refreshes that
\* stay suspended
Suspend(run, others, t, op) ==
  /\ today_events' = run.events
  /\ IF run.save = None
     THEN /\ writes' = writes
          /\ tasks' = others
          /\ io' = [io EXCEPT !.op = op]
     ELSE /\ writes' = Append(writes, [id |-> Issued + 1, data |-> Val(run.save)])
          /\ tasks' = others \cup {[pc |-> run.pc, awaits |-> Issued + 1,
                                    today |-> run.today]}
          /\ io' = [op |-> op, saved |-> Some(run.events), savedAt |-> t]

\* _process_weight_sample adding the sample to weight_history before it looks
\* for a duplicate
process_weight_sample_Records(current_time, raw) ==
  LET current_weight == bowl_balance(raw)
  IN IF /\ last_process_time # None
        /\ current_time - Val(last_process_time) < Seconds(DuplicateSeconds)
     THEN /\ UNCHANGED <<procVars, machVars, callVars>>
          /\ weight_history' =
               DequeAppend(weight_history,
                           [timestamp |-> current_time, weight |-> current_weight],
                           WeightHistoryMaxlen)
          /\ UNCHANGED <<last_process_time, today_events, writes, tasks>>
          /\ io' = [io EXCEPT !.op = "dropped"]
     ELSE /\ last_process_time' = Some(current_time)
          /\ weight_history' =
               DequeAppend(weight_history,
                           [timestamp |-> current_time, weight |-> current_weight],
                           WeightHistoryMaxlen)
          /\ process_weight(current_weight, current_time)
          /\ LET event == Val(last_call').ret
             IN Suspend(IF event # None
                        THEN handle_eating_event(today_events, Val(event), current_time)
                        ELSE cleanup_old_events(today_events, current_time),
                        tasks, current_time, "processed")

\* _process_weight_sample at current_time with the reading raw, up to its first
\* await of a save
process_weight_sample(current_time, raw) ==
  LET current_weight == bowl_balance(raw)
  IN IF /\ last_process_time # None
        /\ current_time - Val(last_process_time) < Seconds(DuplicateSeconds)
     THEN /\ UNCHANGED <<procVars, machVars, callVars>>
          /\ UNCHANGED <<weight_history, last_process_time, today_events,
                         writes, tasks>>
          /\ io' = [io EXCEPT !.op = "dropped"]
     ELSE /\ last_process_time' = Some(current_time)
          /\ weight_history' =
               DequeAppend(weight_history,
                           [timestamp |-> current_time, weight |-> current_weight],
                           WeightHistoryMaxlen)
          /\ process_weight(current_weight, current_time)
          /\ LET event == Val(last_call').ret
             IN Suspend(IF event # None
                        THEN handle_eating_event(today_events, Val(event), current_time)
                        ELSE cleanup_old_events(today_events, current_time),
                        tasks, current_time, "processed")

\* ------------------------------------------------------------- SpecDevice
\* The device refreshed again and again around midnight: by the scheduled poll
\* and by select_mode / set_food_out_count / set_max_daily_food, which also
\* start while an earlier refresh still awaits its save.  The bowl is not
\* refilled: a reading is never above the last processed one.
RawWeights == {[kind |-> "number", value |-> 10], [kind |-> "null"]}
DeviceDeltas == {Seconds(2), Seconds(10)}

InitDevice ==
  /\ Constructed(15, 5, 2, 100)
  /\ scn = FreePolls
  /\ AdapterConstructed
  /\ eating_events_store = Some("Store")
  /\ now = Midnight - Seconds(45)
  /\ \E loaded \in {<<>>, <<EventPool[1]>>} :
       /\ today_events = loaded
       /\ stored = IF loaded = <<>> THEN None
                   ELSE Some(SaveData(loaded, Midnight - Seconds(130)))
  /\ io = [op |-> "none", saved |-> None, savedAt |-> 0]

\* update_device_detail: the detail arrives and _process_weight_sample runs
Refresh ==
  /\ calls < MaxCalls
  /\ \E d \in DeviceDeltas, raw \in RawWeights :
       /\ weight_history # <<>> =>
            bowl_balance(raw) <= weight_history[Len(weight_history)].weight
       /\ now' = now + d
       /\ process_weight_sample(now + d, raw)
  /\ UNCHANGED <<scn, eating_events_store, stored, write_log>>

\* the Store writes the oldest save it holds
StoreWrites ==
  /\ writes # <<>>
  /\ stored' = Some(Head(writes).data)
  /\ write_log' = Append(write_log, Head(writes).id)
  /\ writes' = Tail(writes)
  /\ io' = [io EXCEPT !.op = "written"]
  /\ UNCHANGED <<coreVars, today_events, eating_events_store, now,
                 weight_history, last_process_time, tasks>>

\* a refresh goes on after the save it awaited was written
Resume ==
  /\ \E task \in tasks :
       /\ \A i \in DOMAIN writes : writes[i].id # task.awaits
       /\ IF task.pc = "event saved"
          THEN Suspend(cleanup_old_events(today_events, now), tasks \ {task},
                       now, "resumed")
          ELSE /\ today_events' = KeepOnly(today_events, task.today)
               /\ tasks' = tasks \ {task}
               /\ writes' = writes
               /\ io' = [io EXCEPT !.op = "resumed"]
  /\ UNCHANGED <<coreVars, eating_events_store, stored, now,
                 weight_history, last_process_time, write_log>>

NextDevice == Refresh \/ StoreWrites \/ Resume

SpecDevice == InitDevice /\ [][NextDevice]_vars

\* --------------------------------------------------------------- SpecLong
\* The device polled every 5 seconds for longer than the tracker remembers.
MaxLong == 725

InitLong ==
  /\ Constructed(60, 5, 2, 100)
  /\ scn = FreePolls
  /\ AdapterConstructed
  /\ eating_events_store = Some("Store")
  /\ today_events = <<>>
  /\ stored = None
  /\ now = 0
  /\ io = [op |-> "none", saved |-> None, savedAt |-> 0]

RefreshLong ==
  /\ calls < MaxLong
  /\ \E raw \in {[kind |-> "number", value |-> 500]} :
       /\ now' = now + Seconds(5)
       /\ process_weight_sample(now + Seconds(5), raw)
  /\ UNCHANGED <<scn, eating_events_store, stored, write_log>>

NextLong == RefreshLong

SpecLong == InitLong /\ [][NextLong]_vars

\* ------------------------------------------------------------------ claims

\* the last call, when there was one
Called == last_call # None
Call == Val(last_call)

\* C3: a call made in STABILIZING with a weight other than stability_check_weight,
\* before stable_duration_seconds have passed since stability_check_start,
\* returns no event, leaves the machine in EATING with the inner check restarted
\* at that weight and timestamp, and keeps the eating start fields.
C3_Case ==
  /\ Called
  /\ Call.before.state = "STABILIZING"
  /\ Some(Call.weight) # Call.before.stability_check_weight
  /\ Call.timestamp - Val(Call.before.stability_check_start)
       < Seconds(stable_duration_seconds)

C3_ResumeEating ==
  C3_Case =>
    /\ Call.ret = None
    /\ ~Call.raised
    /\ state = "EATING"
    /\ stability_check_start = Some(Call.timestamp)
    /\ stability_check_weight = Some(Call.weight)
    /\ eating_start_time = Call.before.eating_start_time
    /\ eating_start_weight = Call.before.eating_start_weight
    /\ eating_start_time # None
    /\ eating_start_weight # None

C3_Witness == C3_Case /\ state = "EATING"

\* --- check_stability on the tracker's history
AllWeights(ws) == {ws[i].weight : i \in DOMAIN ws}
HistorySpan(ws) == ws[Len(ws)].timestamp - ws[1].timestamp
\* the samples newer than stable_duration_seconds before the newest one
WindowOf(ws) ==
  LET Newer(s) == s.timestamp > ws[Len(ws)].timestamp - Seconds(stable_duration_seconds)
  IN SelectSeq(ws, Newer)
Tolerance == Seconds(stable_duration_seconds - sample_interval)

\* C4 as claimed: a history of identical weights whose timestamps span at least
\* stable_duration_seconds - sample_interval, whatever the spacing, is stable.
C4_AnySpacing ==
  (/\ weight_samples # <<>>
   /\ Cardinality(AllWeights(weight_samples)) = 1
   /\ HistorySpan(weight_samples) >= Tolerance)
  => check_stability(weight_samples) = <<TRUE, weight_samples[1].weight>>

\* C4 amended: a history of at least two identical weights is stable when the
\* samples of its last stable_duration_seconds span at least
\* stable_duration_seconds - sample_interval.
C4_Case ==
  /\ Len(weight_samples) >= 2
  /\ Cardinality(AllWeights(weight_samples)) = 1
  /\ HistorySpan(WindowOf(weight_samples)) >= Tolerance

C4_WindowSpan ==
  C4_Case => check_stability(weight_samples) = <<TRUE, weight_samples[1].weight>>

C4_Witness == C4_Case /\ Len(weight_samples) >= 3

\* C5: an empty or single-sample history is not stable, and every not-stable
\* answer carries weight 0.
C5_NotStableIsZero ==
  /\ Len(weight_samples) <= 1 => check_stability(weight_samples) = <<FALSE, 0>>
  /\ ~check_stability(weight_samples)[1] => check_stability(weight_samples)[2] = 0

C5_Witness ==
  /\ Len(weight_samples) = 1
  /\ weight_samples[1].weight # 0
  /\ check_stability(weight_samples) = <<FALSE, 0>>

\* C6 as claimed: in IDLE is_eating is false and current_eating_amount is 0; in
\* EATING and STABILIZING is_eating is true and current_eating_amount is non-zero.
C6_NonZeroWhileEating ==
  /\ state = "IDLE" => (~is_eating /\ current_eating_amount = 0)
  /\ state \in {"EATING", "STABILIZING"} => (is_eating /\ current_eating_amount # 0)

\* the weight current_eating_amount compares with: stability_check_weight, 0 while unset
CheckedWeight == IF stability_check_weight = None THEN 0 ELSE Val(stability_check_weight)

\* C6 amended: in IDLE is_eating is false and current_eating_amount is 0; in
\* EATING and STABILIZING is_eating is true and current_eating_amount is
\* eating_start_weight minus the weight under the inner check (0 while none is
\* under check), clamped at 0: never negative, and non-zero exactly when that
\* weight is below eating_start_weight.
C6_ClampedWhileEating ==
  /\ state = "IDLE" => (~is_eating /\ current_eating_amount = 0)
  /\ state \in {"EATING", "STABILIZING"} =>
       /\ is_eating
       /\ current_eating_amount >= 0
       /\ current_eating_amount # 0 <=> CheckedWeight < Val(eating_start_weight)
       /\ current_eating_amount # 0 =>
            current_eating_amount = Val(eating_start_weight) - CheckedWeight

C6_Witness ==
  /\ state \in {"EATING", "STABILIZING"}
  /\ stability_check_weight # None
  /\ Val(stability_check_weight) > Val(eating_start_weight)
  /\ current_eating_amount = 0

\* C8: the machine starts in IDLE; one call changes the state only along
\* IDLE->EATING, EATING->STABILIZING, STABILIZING->EATING, STABILIZING->IDLE or
\* not at all; an event is returned exactly by the calls that take
\* STABILIZING->IDLE.
Transitions ==
  {<<"IDLE", "EATING">>, <<"EATING", "STABILIZING">>,
   <<"STABILIZING", "EATING">>, <<"STABILIZING", "IDLE">>}

C8_Transitions ==
  /\ ~Called => state = "IDLE"
  /\ Called =>
       /\ Call.before.state = state \/ <<Call.before.state, state>> \in Transitions
       /\ Call.ret # None <=> (Call.before.state = "STABILIZING" /\ state = "IDLE")

C8_Witness ==
  /\ Called
  /\ Call.ret # None
  /\ Call.before.state = "STABILIZING"
  /\ state = "IDLE"

\* C9: a returned event has amount = max(0, start_weight - end_weight), duration
\* the whole seconds of end_time - start_time, start_time the timestamp of the
\* sample that took IDLE->EATING, and end_time / end_weight the timestamp and
\* weight of the call that returned it.
C9_Case == Called /\ Call.ret # None

C9_EventFields ==
  C9_Case =>
    LET e == Val(Call.ret)
        elapsed == e.end_time - e.start_time
    IN /\ e.amount >= 0
       /\ e.amount >= e.start_weight - e.end_weight
       /\ e.amount \in {0, e.start_weight - e.end_weight}
       /\ elapsed >= 0
       /\ e.duration * TicksPerSec <= elapsed
       /\ elapsed < (e.duration + 1) * TicksPerSec
       /\ drop_call # None
       /\ e.start_time = Val(drop_call).timestamp
       /\ e.end_time = Call.timestamp
       /\ e.end_weight = Call.weight

\* an event that ends above its start weight, a fraction of a second long
C9_Witness ==
  /\ C9_Case
  /\ Val(Call.ret).end_weight > Val(Call.ret).start_weight
  /\ (Val(Call.ret).end_time - Val(Call.ret).start_time) % TicksPerSec # 0

\* C10: process_weight never fails, whatever the weight (0 included) and the
\* timestamp: no call raises, every call returns an event or nothing, and the
\* fields event construction subtracts from are set whenever the machine can
\* reach it.
C10_NeverFails ==
  /\ Called => /\ ~Call.raised
               /\ Call.ret = None \/ Call.ret = Some(Val(last_event))
  /\ state = "STABILIZING" =>
       /\ eating_start_time # None
       /\ eating_start_weight # None
       /\ stability_check_start # None

\* an event closed by a 0-gram reading after the clock had stepped back
C10_Witness ==
  /\ Called
  /\ Call.ret # None
  /\ Call.weight = 0
  /\ \E i \in 1..(Len(weight_samples) - 1) :
       weight_samples[i + 1].timestamp < weight_samples[i].timestamp

\* C11: detect_spike(weight) is true exactly when a baseline has been recorded,
\* whatever its value (0 grams included), and weight is above
\* last_stable_weight + spike_threshold.
C11_SpikeIffAboveBaseline ==
  \A w \in Weights :
    detect_spike(w) <=>
      (last_stable_weight # None /\ w > Val(last_stable_weight) + spike_threshold)

\* --- one meal (SpecMeal)
Holding == scn.name = "meal" /\ scn.phase = "hold"
\* time since the sample that made the drop
SinceDrop == LastTimestamp - scn.dropTime
MaxGap(dts) == CHOOSE d \in dts : \A x \in dts : x <= d

\* the scenario of C1: 60 s / 5 s / 2 g, 500 g stable for 60 s, then 490 g,
\* a sample every 5 s
C1_Case ==
  /\ Holding
  /\ stable_duration_seconds = 60 /\ sample_interval = 5 /\ min_eating_amount = 2
  /\ scn.B = 500 /\ scn.B2 = 490 /\ scn.dts = {Seconds(5)}
  /\ scn.stableFor >= Seconds(60)

C1_Start ==
  SinceDrop = 0 => /\ Call.before.state = "IDLE"
                   /\ state = "EATING"
                   /\ eating_start_weight = Some(500)
                   /\ Call.ret = None

C1_Event(duration) ==
  [start_time |-> scn.dropTime, end_time |-> scn.dropTime + Seconds(duration),
   start_weight |-> 500, end_weight |-> 490, amount |-> 10,
   duration |-> duration, max_weight |-> 490]

\* C1 as claimed: the first 490 g sample takes IDLE to EATING with
\* eating_start_weight 500; after ten seconds of unchanged 490 g the machine is
\* STABILIZING; after 60 more seconds the call returns the event (500, 490,
\* amount 10, duration 70, max_weight >= 490) and the state is IDLE.
C1_AsClaimed ==
  C1_Case =>
    /\ C1_Start
    /\ SinceDrop = Seconds(10) => state = "STABILIZING"
    /\ SinceDrop = Seconds(70) =>
         /\ Call.ret # None
         /\ [Val(Call.ret) EXCEPT !.max_weight = 490] = C1_Event(70)
         /\ Val(Call.ret).max_weight >= 490
         /\ state = "IDLE"

\* C1 amended: the first 490 g sample takes IDLE to EATING with
\* eating_start_weight 500; the machine is STABILIZING fifteen seconds after
\* that sample (ten seconds after the inner check started on the second 490 g
\* sample); 65 seconds after the drop sample, the weight unchanged for 60 s
\* since the inner check started, the call returns the event (500, 490,
\* amount 10, duration 65, max_weight 490) and the state is IDLE; no other
\* call of the scenario returns an event.
C1_Scenario ==
  C1_Case =>
    /\ C1_Start
    /\ SinceDrop < Seconds(15) => state = "EATING"
    /\ SinceDrop = Seconds(5) => stability_check_start = Some(LastTimestamp)
    /\ (SinceDrop >= Seconds(15) /\ SinceDrop < Seconds(65)) =>
         /\ state = "STABILIZING"
         /\ stability_check_start = Some(scn.dropTime + Seconds(5))
    /\ SinceDrop = Seconds(15) => Call.before.state = "EATING"
    /\ SinceDrop = Seconds(65) =>
         /\ Call.before.state = "STABILIZING"
         /\ Call.ret = Some(C1_Event(65))
    /\ SinceDrop >= Seconds(65) => state = "IDLE"
    /\ SinceDrop # Seconds(65) => Call.ret = None

C1_Witness ==
  /\ C1_Case
  /\ SinceDrop = Seconds(65)
  /\ Call.ret = Some(C1_Event(65))
  /\ state = "IDLE"

\* C2: over a sequence that is stable at B, drops by more than
\* min_eating_amount and then holds B2, process_weight returns exactly one
\* event: never a second one, and one at the latest when B2 has been held for
\* stable_duration_seconds and two further polls; its amount is max(0, B - B2)
\* and its duration the whole seconds from the sample that made the drop to the
\* sample that returned it.
C2_ExactlyOneEvent ==
  Holding =>
    /\ Len(emitted) <= 1
    /\ SinceDrop >= Seconds(stable_duration_seconds) + 2 * MaxGap(scn.dts)
         => Len(emitted) >= 1
    /\ \A i \in DOMAIN emitted :
         /\ emitted[i].amount = Max(0, scn.B - scn.B2)
         /\ emitted[i].start_time = scn.dropTime
         /\ emitted[i].duration = (emitted[i].end_time - scn.dropTime) \div TicksPerSec

\* --- persistence (SpecStore)
OfDate(events, date) ==
  LET StartsOn(e) == Date(e.start_time) = date
  IN SelectSeq(events, StartsOn)

\* a load that read what the last save wrote, on the calendar date of that save
C7_Case ==
  /\ io.op = "load"
  /\ io.saved # None
  /\ Date(io.savedAt) = Date(now)

\* C7: after saving the in-memory list and loading it on the same calendar
\* date, the list holds the saved events that started on that date, each with
\* the fields it was saved with and in the saved order: the whole saved list
\* when all of it started on that date, and no event that started earlier.
C7_RoundTrip ==
  C7_Case =>
    /\ today_events = OfDate(Val(io.saved), Date(now))
    /\ (\A i \in DOMAIN Val(io.saved) :
          Date(Val(io.saved)[i].start_time) = Date(now))
         => today_events = Val(io.saved)
    /\ \A i \in DOMAIN today_events : Date(today_events[i].start_time) >= Date(now)

\* two events of the day, with fractional timestamps, saved and loaded back
C7_Witness ==
  /\ C7_Case
  /\ Len(today_events) >= 2
  /\ today_events = Val(io.saved)
  /\ \E i \in DOMAIN today_events : today_events[i].start_time % TicksPerSec # 0

\* a load that left out a saved event of the day before
C7_WitnessEarlier ==
  /\ C7_Case
  /\ today_events # <<>>
  /\ Len(today_events) < Len(Val(io.saved))

\* --- loading damaged files (SpecLoad)
\* a record with every required field and timestamps that parse
WellFormed(rec) ==
  /\ {"start", "end", "start_weight", "end_weight", "amount", "duration"}
       \subseteq DOMAIN rec
  /\ IsStr(rec.start) /\ IsIsoformat(rec.start)
  /\ IsStr(rec.end) /\ IsIsoformat(rec.end)

\* the well-formed records of a date, in stored order
WellFormedOf(records, date) ==
  LET Keep(rec) == WellFormed(rec) /\ Date(fromisoformat(rec.start)) = date
  IN SelectSeq(records, Keep)

Loaded == io.op \in {"load", "load raised"}

\* C12: a load does not fail on a stored record that lacks a required field or
\* whose timestamp does not parse, and the in-memory list afterwards holds every
\* well-formed record of the current date, in stored order, and nothing else.
C12_SkipsDamaged ==
  Loaded =>
    /\ io.op = "load"
    /\ LET kept == WellFormedOf(Val(stored).events, Date(now))
       IN /\ Len(today_events) = Len(kept)
          /\ \A i \in DOMAIN kept : EventData(today_events[i]) =
               [f \in DOMAIN EventData(today_events[i]) |->
                  IF f \in DOMAIN kept[i] THEN kept[i][f] ELSE 0]

\* --- the device adapter (SpecDevice)
\* a refresh arrives: only a refresh moves the clock
Arrives == now' # now
\* it arrives less than 3 seconds after the last processed sample
TooSoon ==
  last_process_time # None /\ now' - Val(last_process_time) < Seconds(3)

\* C13: a poll arriving less than 3 seconds after the last processed sample is
\* dropped: process_weight is not called and the machine, the tracker's history
\* and baseline, weight_history, today_events and _last_process_time stay as
\* they are; the timestamps process_weight has been given are therefore at
\* least 3 seconds apart.
C13_DuplicateDropped ==
  /\ [][(Arrives /\ TooSoon) =>
          /\ calls' = calls
          /\ Machine' = Machine
          /\ UNCHANGED <<weight_samples, last_stable_weight, last_stable_time>>
          /\ UNCHANGED <<weight_history, today_events, last_process_time>>]_vars
  /\ [](\A i \in 1..(Len(weight_samples) - 1) :
          weight_samples[i + 1].timestamp - weight_samples[i].timestamp
            >= Seconds(3))

\* a poll dropped in the middle of a meal
C13_Witness ==
  /\ io.op = "dropped"
  /\ state = "STABILIZING"
  /\ now - Val(last_process_time) < Seconds(3)
  /\ weight_history[Len(weight_history)].timestamp = Val(last_process_time)

\* --- the tracker's history (SpecLong)
\* the last n entries of a sequence
LastN(q, n) == SubSeq(q, Len(q) - n + 1, Len(q))
\* a sample of the tracker as the adapter recorded it
Recorded(sample) == [timestamp |-> sample.timestamp, weight |-> sample.weight]

\* C14 as claimed: the tracker's history has a capacity of about 17280 samples:
\* it never holds more, it holds the most recent samples in arrival order, and
\* nothing is evicted before that capacity is exceeded.
C14_Capacity17280 ==
  /\ Len(weight_samples) <= WeightHistoryMaxlen
  /\ calls <= WeightHistoryMaxlen => Len(weight_samples) = calls
  /\ [i \in DOMAIN weight_samples |-> Recorded(weight_samples[i])]
       = LastN(weight_history, Len(weight_samples))

\* C14 amended: the tracker's history has a capacity of 720 samples: it never
\* holds more, it holds the most recent samples in arrival order (the newest
\* min(calls, 720) samples given to add_sample), and a sample is evicted only
\* when 720 is exceeded, the oldest first.
C14_Capacity720 ==
  /\ Len(weight_samples) <= 720
  /\ calls <= 720 => Len(weight_samples) = calls
  /\ calls > 720 => Len(weight_samples) = 720
  /\ Len(weight_history) = calls
  /\ [i \in DOMAIN weight_samples |-> Recorded(weight_samples[i])]
       = LastN(weight_history, Len(weight_samples))

\* the three oldest samples have been evicted
C14_Witness ==
  /\ calls = 723
  /\ Len(weight_samples) = 720
  /\ Recorded(weight_samples[1]) = weight_history[4]
  /\ Recorded(weight_samples[720]) = weight_history[723]

C16_Case == Called /\ Call.before.state = "IDLE"

C16_IdleToEating ==
  C16_Case =>
    /\ Call.ret = None
    /\ state = "EATING" <=>
         (/\ Call.baseline # None
          /\ Call.weight < Val(Call.baseline) - min_eating_amount)
    /\ state = "EATING" =>
         /\ eating_start_time = Some(Call.timestamp)
         /\ eating_start_weight = Call.baseline
         /\ max_weight_during_eating = Some(Call.weight)
    /\ state # "EATING" => Machine = Call.before

\* C17: a call made in EATING returns no event.  With no inner check in
\* progress, or a weight other than stability_check_weight, it starts the inner
\* check at this timestamp and weight and stays in EATING.  With the weight of
\* the inner check it moves to STABILIZING exactly when ten seconds or more have
\* passed since stability_check_start, whatever stable_duration_seconds is.
C17_Case == Called /\ Call.before.state = "EATING"

C17_Restarts ==
  \/ Call.before.stability_check_start = None
  \/ Some(Call.weight) # Call.before.stability_check_weight

C17_EatingToStabilizing ==
  C17_Case =>
    /\ Call.ret = None
    /\ ~Call.raised
    /\ C17_Restarts =>
         /\ state = "EATING"
         /\ stability_check_start = Some(Call.timestamp)
         /\ stability_check_weight = Some(Call.weight)
    /\ ~C17_Restarts =>
         /\ state \in {"EATING", "STABILIZING"}
         /\ state = "STABILIZING" <=>
              Call.timestamp - Val(Call.before.stability_check_start) >= Seconds(10)
         /\ stability_check_start = Call.before.stability_check_start
         /\ stability_check_weight = Call.before.stability_check_weight

\* STABILIZING entered after exactly ten seconds, short of the configured 20
C17_Witness ==
  /\ C17_Case
  /\ ~C17_Restarts
  /\ state = "STABILIZING"
  /\ stable_duration_seconds = 20
  /\ Call.timestamp - Val(stability_check_start) = Seconds(10)

\* the inner check still short of ten seconds
C17_WitnessShort ==
  /\ C17_Case
  /\ ~C17_Restarts
  /\ state = "EATING"

\* C18: a call made in STABILIZING with the weight of the inner check returns
\* the event and leaves the machine in IDLE exactly when stable_duration_seconds
\* or more have passed since stability_check_start.  The event starts at the
\* captured eating_start_time and eating_start_weight, ends at this timestamp
\* and weight, carries max_weight_during_eating as max_weight (the end weight
\* when that is unset) and is kept as last_event.
C18_Case ==
  /\ Called
  /\ Call.before.state = "STABILIZING"
  /\ Some(Call.weight) = Call.before.stability_check_weight

C18_Due ==
  Call.timestamp - Val(Call.before.stability_check_start)
    >= Seconds(stable_duration_seconds)

C18_StabilizingToIdle ==
  C18_Case =>
    /\ ~Call.raised
    /\ Call.ret # None <=> C18_Due
    /\ C18_Due =>
         /\ state = "IDLE"
         /\ last_event = Call.ret
         /\ LET e == Val(Call.ret)
            IN /\ e.start_time = Val(Call.before.eating_start_time)
               /\ e.start_weight = Val(Call.before.eating_start_weight)
               /\ e.end_time = Call.timestamp
               /\ e.end_weight = Call.weight
               /\ e.max_weight = IF Call.before.max_weight_during_eating = None
                                 THEN Call.weight
                                 ELSE Val(Call.before.max_weight_during_eating)
    /\ ~C18_Due => Machine = Call.before

\* C19: add_sample judges the history as it was before the call.  The sample it
\* appends carries the call's weight and timestamp and is_stable is true exactly
\* when that earlier history is stable; the baseline and its time become the
\* stable weight and the sample's timestamp exactly when the earlier history is
\* stable with a weight other than the recorded baseline, and stay as they were
\* otherwise; the sample is appended in every case.
C19_Before == check_stability(weight_samples)

C19_Step ==
  calls' = calls + 1 =>
    LET sample == weight_samples'[Len(weight_samples')]
        fresh == C19_Before[1] /\ Some(C19_Before[2]) # last_stable_weight
    IN /\ weight_samples' = Append(weight_samples, sample)
       /\ sample.weight = Val(last_call').weight
       /\ sample.timestamp = Val(last_call').timestamp
       /\ sample.is_stable = C19_Before[1]
       /\ fresh => /\ last_stable_weight' = Some(C19_Before[2])
                   /\ last_stable_time' = Some(sample.timestamp)
       /\ ~fresh => UNCHANGED <<last_stable_weight, last_stable_time>>

C19_AddSample == [][C19_Step]_vars

\* a sample judged stable on the history before it, which it then breaks by
\* its own weight, and which set the baseline
C19_Witness ==
  LET n == Len(weight_samples)
  IN /\ n >= 3
     /\ weight_samples[n].is_stable
     /\ weight_samples[n].weight # weight_samples[n - 1].weight
     /\ last_stable_weight = Some(weight_samples[n - 1].weight)
     /\ last_stable_time = Some(weight_samples[n].timestamp)

\* C20: in IDLE the five tracking fields are unset; in EATING and STABILIZING
\* eating_start_time, eating_start_weight and max_weight_during_eating are set;
\* last_event is unset until the first event and is afterwards the event
\* emitted last.
C20_FieldsByState ==
  /\ state \in {"IDLE", "EATING", "STABILIZING"}
  /\ state = "IDLE" =>
       /\ eating_start_time = None
       /\ eating_start_weight = None
       /\ max_weight_during_eating = None
       /\ stability_check_start = None
       /\ stability_check_weight = None
  /\ state \in {"EATING", "STABILIZING"} =>
       /\ eating_start_time # None
       /\ eating_start_weight # None
       /\ max_weight_during_eating # None
  /\ last_event = IF emitted = <<>> THEN None ELSE Some(emitted[Len(emitted)])

\* a second meal under way after the first one was emitted
C20_Witness ==
  /\ emitted # <<>>
  /\ state \in {"EATING", "STABILIZING"}
  /\ Val(eating_start_time) > emitted[Len(emitted)].end_time

\* -------------------------------------------------------------- SpecPeak
\* The machine polled every ten seconds for long enough to see a meal that is
\* interrupted while STABILIZING: the bowl holds 5, 7 or 10 g.
MaxPeakCalls == 9
WeightsPeak == {5, 7, 10}
DeltaPeak == Seconds(10)

InitPeak == Constructed(15, 5, 2, 2) /\ scn = FreePolls /\ DeviceConstructed

PollPeak ==
  /\ calls < MaxPeakCalls
  /\ \E w \in WeightsPeak : process_weight(w, LastTimestamp + DeltaPeak)
  /\ UNCHANGED <<scn, devVars>>

NextPeak == PollPeak

SpecPeak == InitPeak /\ [][NextPeak]_vars

\* the weights of the samples processed from the one that started the event e
\* to the one that ended it (timestamps strictly increase in SpecPeak)
WeightsDuring(e) ==
  {weight_samples[i].weight :
     i \in {j \in DOMAIN weight_samples :
              /\ weight_samples[j].timestamp >= e.start_time
              /\ weight_samples[j].timestamp <= e.end_time}}

SetMax(S) == CHOOSE x \in S : \A y \in S : y <= x

\* C21: the max_weight of every emitted event is the largest weight among the
\* samples processed from the one that started eating to the one that ended
\* it, those received while STABILIZING included.
C21_MaxWeightIsPeak ==
  \A i \in DOMAIN emitted :
    emitted[i].max_weight = SetMax(WeightsDuring(emitted[i]))

\* C22: two machines that differ only in spike_threshold and are given the same
\* samples have, after every call, the same state and tracking fields, the
\* same baseline and the same emitted events.
C22_SpikeHasNoEffect ==
  /\ twin.spike_threshold # spike_threshold
  /\ twin.weight_samples = weight_samples
  /\ twin.m = Machine
  /\ twin.last_stable_weight = last_stable_weight
  /\ twin.last_stable_time = last_stable_time
  /\ twin.emitted = emitted

\* a sample that is a spike for one of the two machines only, on which both
\* changed state
C22_Witness ==
  /\ Called
  /\ Truthy(Call.baseline)
  /\ Call.weight > Val(Call.baseline) + spike_threshold
  /\ ~detect_spike_of(twin, Call.weight)
  /\ Call.before.state # state
  /\ twin.m.state = state

\* --- the daily rollover of the device
\* a step in which _cleanup_old_events is entered: a processed poll that
\* returned no event, or a refresh going on after the save of its event
CleanupEntered ==
  \/ calls' = calls + 1 /\ Val(last_call').ret = None
  \/ \E k \in tasks \ tasks' : k.pc = "event saved"

StartedOn(events, day) == {i \in DOMAIN events : Date(events[i].start_time) = day}

\* C23: when _cleanup_old_events finds the first in-memory event started on an
\* earlier date it hands the whole list to the Store and keeps the list as it
\* is until that save is written; it then keeps exactly the events that started
\* on the current date, in order.  When the first event is of the current date
\* (or there is none) the list and the Store are left as they are.
C23_Step ==
  /\ CleanupEntered =>
       IF today_events # <<>> /\ Date(today_events[1].start_time) < Date(now')
       THEN /\ today_events' = today_events
            /\ writes' = Append(writes, [id |-> Issued + 1,
                                         data |-> SaveData(today_events, now')])
            /\ \E k \in tasks' \ tasks :
                 k.pc = "cleanup saved" /\ k.awaits = Issued + 1
       ELSE /\ today_events' = today_events
            /\ writes' = writes
            /\ stored' = stored
            /\ tasks' \subseteq tasks
  /\ \A k \in tasks \ tasks' :
       k.pc = "cleanup saved" =>
         /\ \E i \in DOMAIN write_log : write_log[i] = k.awaits
         /\ Len(today_events') = Cardinality(StartedOn(today_events, Date(now)))
         /\ \A i \in DOMAIN today_events' :
              /\ Date(today_events'[i].start_time) = Date(now)
              /\ \E j \in DOMAIN today_events : today_events[j] = today_events'[i]
         /\ writes' = writes
         /\ stored' = stored

MaxConfigCalls == 3

\* the fields of AdditionalDeviceConfig and their defaults
AdditionalDeviceConfigDefaults ==
  [name |-> "", mac |-> "", empty_weight |-> 0, max_samples_litter |-> 24,
   stable_duration |-> 60, min_eating_amount |-> 2, spike_threshold |-> 100]

\* AdditionalDeviceConfig(**given)
AdditionalDeviceConfig(given) ==
  [f \in DOMAIN AdditionalDeviceConfigDefaults |->
     IF f \in DOMAIN given THEN given[f] ELSE AdditionalDeviceConfigDefaults[f]]

\* the data a config entry holds after the device_config step, each value
\* within the range the form accepts
ConfigEntries ==
  [empty_weight : {0}, max_samples_litter : {24},
   stable_duration : {10, 60, 300},
   min_eating_amount : {1, 2, 50},
   spike_threshold : {50, 100, 500}]

\* the additional_config _async_update_data finds for a device: hass.data
\* holds no YAML device list under a config entry, so it is built from the
\* entry the coordinator knows of (None during the first refresh)
additional_config_for(known_entry) ==
  IF known_entry = None THEN None
  ELSE Some(AdditionalDeviceConfig(
              [mac |-> "mac",
               empty_weight |-> Val(known_entry).empty_weight,
               max_samples_litter |-> Val(known_entry).max_samples_litter]))

\* getattr(additional_config, field, default)
getattr(additional_config, field, default) ==
  IF additional_config = None THEN default ELSE Val(additional_config)[field]

\* Fresh2FeederDevice.__init__ with additional_config
Fresh2FeederDeviceInit(additional_config) ==
  ConstructedWith(getattr(additional_config, "stable_duration", 60), 5,
                  getattr(additional_config, "min_eating_amount", 2),
                  getattr(additional_config, "spike_threshold", 100))

\* the device was created on the first refresh, before async_setup_entry gave
\* the coordinator its config entry, or on a later refresh
InitConfig ==
  /\ \E entry \in ConfigEntries :
       /\ config_entry = Some(entry)
       /\ \E known_entry \in {None, Some(entry)} :
            Fresh2FeederDeviceInit(additional_config_for(known_entry))
  /\ scn = FreePolls
  /\ DeviceConstructed

PollConfig ==
  /\ calls < MaxConfigCalls
  /\ \E w \in {490, 500} : process_weight(w, LastTimestamp + Seconds(5))
  /\ UNCHANGED <<scn, devVars>>

NextConfig == PollConfig

SpecConfig == InitConfig /\ [][NextConfig]_vars

\* C24: the tracker and the machine of a feeder created under a config entry
\* are constructed with the stable_duration, min_eating_amount and
\* spike_threshold stored in that entry.
C24_ConfiguredParameters ==
  config_entry # None =>
    /\ stable_duration_seconds = Val(config_entry).stable_duration
    /\ min_eating_amount = Val(config_entry).min_eating_amount
    /\ spike_threshold = Val(config_entry).spike_threshold

\* C25: when a call returns an event the tracker's baseline is the event's
\* end_weight, whatever the spacing of the samples (3 seconds or more).
C25_BaselineCaughtUp ==
  (Called /\ Call.ret # None) =>
    last_stable_weight = Some(Val(Call.ret).end_weight)

\* C26: after a call that leaves the machine in EATING or STABILIZING,
\* stability_check_weight is the weight just processed and
\* current_eating_amount is max(0, eating_start_weight - that weight).
C26_TracksLatestWeight ==
  (Called /\ state \in {"EATING", "STABILIZING"}) =>
    /\ stability_check_weight = Some(Call.weight)
    /\ current_eating_amount = Max(0, Val(eating_start_weight) - Call.weight)

\* C27: every emitted event has an amount above min_eating_amount.
C27_AmountAboveMinimum ==
  \A i \in DOMAIN emitted : emitted[i].amount > min_eating_amount

\* the timestamps of the samples processed so far never decrease
TimestampsNeverDecrease ==
  \A i \in 1..(Len(weight_samples) - 1) :
    weight_samples[i].timestamp <= weight_samples[i + 1].timestamp

\* the samples of the last stable_duration_seconds up to the end of the event e
LastStretch(e) ==
  {i \in DOMAIN weight_samples :
     /\ weight_samples[i].timestamp >= e.end_time - Seconds(stable_duration_seconds)
     /\ weight_samples[i].timestamp <= e.end_time}

\* C28: when the timestamps never decrease, every emitted event lasts at least
\* stable_duration_seconds, does not end before it starts, and every sample of
\* the last stable_duration_seconds before its end has its end weight.
C28_EventsAreSettled ==
  TimestampsNeverDecrease =>
    \A i \in DOMAIN emitted :
      LET e == emitted[i]
      IN /\ e.duration >= stable_duration_seconds
         /\ e.end_time >= e.start_time
         /\ \A j \in LastStretch(e) : weight_samples[j].weight = e.end_weight

\* an event whose last stretch holds several samples, with the baseline
\* weight sampled just before it
C28_Witness ==
  /\ TimestampsNeverDecrease
  /\ emitted # <<>>
  /\ Cardinality(LastStretch(emitted[1])) >= 3
  /\ \E j \in DOMAIN weight_samples :
       /\ weight_samples[j].weight # emitted[1].end_weight
       /\ weight_samples[j].timestamp
            >= emitted[1].end_time - Seconds(stable_duration_seconds) - Seconds(10)

\* ------------------------------------------------------------- SpecSettle
\* The machine under free polls until, in EATING or STABILIZING, the bowl
\* settles: from then on every poll reads the same weight, and polls go on
\* while the machine is not back in IDLE.
MaxFreeCalls == 5
MaxSettledCalls == 6
WeightsSettle == {0, 10}

InitSettle == Constructed(15, 5, 2, 5) /\ scn = FreePolls /\ DeviceConstructed

PollFree ==
  /\ scn = FreePolls
  /\ calls < MaxFreeCalls
  /\ \E w \in WeightsSettle, d \in Deltas : process_weight(w, LastTimestamp + d)
  /\ UNCHANGED <<scn, devVars>>

BowlSettles ==
  /\ scn = FreePolls
  /\ state \in {"EATING", "STABILIZING"}
  /\ \E w \in WeightsSettle, d \in Deltas :
       /\ process_weight(w, LastTimestamp + d)
       /\ scn' = [name |-> "settled", weight |-> w, since |-> calls]
  /\ UNCHANGED devVars

PollSettled ==
  /\ scn.name = "settled"
  /\ state # "IDLE"
  /\ calls - scn.since < MaxSettledCalls
  /\ \E d \in Deltas : process_weight(scn.weight, LastTimestamp + d)
  /\ UNCHANGED <<scn, devVars>>

NextSettle == PollFree \/ BowlSettles \/ PollSettled

\* the poll keeps coming
SpecSettle == InitSettle /\ [][NextSettle]_vars /\ WF_vars(PollSettled)

\* C29: once the bowl has settled in EATING or STABILIZING, with every later
\* sample at the same weight and at a later timestamp, a call returns an event
\* and the machine is in IDLE.
C29_MealEnds ==
  (scn.name = "settled") ~> (state = "IDLE" /\ Called /\ Call.ret # None)

\* a meal closed several polls after the bowl settled in STABILIZING at
\* another weight
C29_Witness ==
  /\ scn.name = "settled"
  /\ state = "IDLE"
  /\ Called
  /\ Call.ret # None
  /\ calls - scn.since >= 4
  /\ Val(Call.ret).end_weight = scn.weight

\* C30: once the poll whose process_weight call returned an event has
\* finished, with its saves written, the event is in the in-memory list and in
\* the persisted data, also when the meal started before midnight and ended
\* after it.
C30_EventKept ==
  (Called /\ Call.ret # None /\ tasks = {} /\ writes = <<>>) =>
    /\ \E i \in DOMAIN today_events : today_events[i] = Val(Call.ret)
    /\ stored # None
    /\ \E i \in DOMAIN Val(stored).events :
         Val(stored).events[i] = EventData(Val(Call.ret))

====
